---------------------------- MODULE Spec2Model ----------------------------
(***************************************************************************)
(* The exception dispatcher of skiboot, core/exceptions.c: one CPU taking  *)
(* one trap.  The trampoline fills a stack frame and calls                 *)
(* exception_entry, which is followed here statement block by statement    *)
(* block (pc names the block about to run) until it either calls abort()   *)
(* or returns to the trampoline.                                           *)
(*                                                                         *)
(* A mode word (MSR image) is the set of the names of its set bits, so     *)
(* msr & MSR_RI is "RI" \in msr and srr1 &= ~(MSR_IR|MSR_DR) is            *)
(* srr1 \ {"IR","DR"}.                                                     *)
(***************************************************************************)
EXTENDS Integers, Sequences, FiniteSets, TLC

VARIABLES
    pc,        \* the block of exception_entry about to run
    stack,     \* struct stack_frame *stack: the snapshot
    entry,     \* history: the snapshot as the trampoline handed it over
    cpu,       \* this_cpu(): vm_local_map_inuse, vm_setup
    cpu0,      \* history: this_cpu()'s flags when the trap was taken
    hv,        \* bool hv
    nip,       \* uint64_t nip
    msr,       \* uint64_t msr
    fatal,     \* bool fatal
    l,         \* size_t l
    buf,       \* char buf[EXCEPTION_MAX_STR]: the pieces formatted into it
    log,       \* what prerror() was given, in order
    calls,     \* history: the fault resolvers invoked, in order
    flagRead,  \* history: this_cpu()->vm_local_map_inuse was read
    bt,        \* history: number of backtrace() calls
    sizes,     \* history: the size arguments handed to the formatters
    hiwrite,   \* history: one past the highest offset of buf written
    ml,        \* size_t l of print_recoverable_mce_vm
    refaults,  \* history: machine checks re-taken after a degrade and retry
    cvc,       \* libstb/cvc.c: static struct container_verification_code *cvc
    first,     \* history: the arguments of the first cvc_register call
    last       \* history: the last call made into libstb/cvc.c

\* the state of the exception handler, and that of the CVC registry
excvars == <<pc, stack, entry, cpu, cpu0, hv, nip, msr, fatal, l, buf, log,
             calls, flagRead, bt, sizes, hiwrite, ml>>
cvcvars == <<cvc, first, last>>
vars == <<excvars, refaults, cvcvars>>

---------------------------------------------------------------------------
(* Bounds of the model. *)

\* length of a short rendered symbol ("name+0xoff")
ShortSym == 9
\* a long rendered symbol is EXCEPTION_MAX_STR + LongSymExtra characters
LongSymExtra == 80
\* size_t is modelled SizeBits wide (every length of the model is far below)
SizeBits == 16
\* machine checks re-taken after a degrade and retry: at most MaxRefaults
MaxRefaults == 2
\* uint64_t addresses of the CVC are modelled AddrBits wide
AddrBits == 4
\* service offsets: 0..MaxOffset
MaxOffset == 3

---------------------------------------------------------------------------
(* Program constants. *)

EXCEPTION_MAX_STR == 320
\* REG "%016llx": a 64-bit value prints as 16 digits
RegLen == 16

MSR_RI == "RI"
MSR_IR == "IR"
MSR_DR == "DR"
MsrBits == {MSR_RI, MSR_IR, MSR_DR}
DSISR_ISSTORE == "ISSTORE"

\* trap identifiers, stack->type
T_SRESET == 256   \* 0x100
T_MCE    == 512   \* 0x200
T_DSI    == 768   \* 0x300
T_DSLB   == 896   \* 0x380
T_ISI    == 1024  \* 0x400
T_ISLB   == 1152  \* 0x480
\* 0x500 0x980 0xe00 0xe20 0xe40 0xe60 0xe80 0xea0 0xf80
HvTypes == {1280, 2432, 3584, 3616, 3648, 3680, 3712, 3744, 3968}
\* identifiers with no case of their own: 0x700, 0xc00
OtherTypes == {1792, 3072}
Delegated == {T_DSI, T_DSLB, T_ISI, T_ISLB}
Types == {T_SRESET, T_MCE} \cup Delegated \cup HvTypes \cup OtherTypes

\* addresses are only copied and printed: two distinct values for the saved
\* instruction addresses, one for DAR
Addrs == {4096, 8192}
Dars == {12288}

StackFrames ==
    [type : Types, srr0 : Addrs, srr1 : SUBSET MsrBits,
     hsrr0 : Addrs, hsrr1 : SUBSET MsrBits,
     dar : Dars, dsisr : SUBSET {DSISR_ISSTORE}]

\* rendered length of the symbol of an address: 0 when get_symbol finds none
SymLens == {0, ShortSym, EXCEPTION_MAX_STR + LongSymExtra}

---------------------------------------------------------------------------
(* Formatting into the fixed buffer. *)

Min(a, b) == IF a < b THEN a ELSE b
Max(a, b) == IF a > b THEN a ELSE b

SizeMod == 2 ^ SizeBits

\* unsigned subtraction, EXCEPTION_MAX_STR - l as a size_t
SubSizeT(a, b) == (a - b) % SizeMod

\* variant: the offset not subtracted from the capacity
Remaining_Whole(off) == EXCEPTION_MAX_STR

\* the remaining-space argument of every formatter call
Remaining(off) == SubSizeT(EXCEPTION_MAX_STR, off)

\* snprintf(buf + off, size, ...) of a text of n characters: the characters
\* stored (the terminating NUL not counted), which is also what it returns
snprintf(size, n) == IF size = 0 THEN 0 ELSE Min(n, size - 1)

\* snprintf_symbol(buf + off, size, addr) of a symbol rendering n characters
\* long (0: no symbol, nothing written, returns 0)
snprintf_symbol(size, n) == IF n = 0 THEN 0 ELSE snprintf(size, n)

\* one past the last byte stored by a formatter call at offset off
WriteEnd(off, size, n, isSym) ==
    IF size = 0 \/ (isSym /\ n = 0) THEN 0 ELSE off + snprintf(size, n) + 1

RECURSIVE HexDigits(_)
HexDigits(n) == IF n < 16 THEN 1 ELSE 1 + HexDigits(n \div 16)

\* lengths of the summary-line prefixes
LenRecoverableMce == 30 + RegLen + 3
LenFatalSreset    == 22 + RegLen + 3
LenSreset         == 16 + RegLen + 3
LenFatalMce       == 13 + RegLen + 3
LenFatalDsi(isStore) ==
    6 + (IF isStore THEN 5 ELSE 4) + 9 + RegLen + 4 + RegLen + 3
LenFatalDslb      == 25 + RegLen + 4 + RegLen + 3
LenFatalIfetch    == 16 + RegLen + 3
LenFatalException(type) == 18 + HexDigits(type) + 4 + RegLen + 2
LenMsr            == 6 + RegLen

\* one formatter call at offset l: the new values of l, buf, sizes, hiwrite
Format(piece, n, isSym) ==
    LET size == Remaining(l)
        ret  == IF isSym THEN snprintf_symbol(size, n) ELSE snprintf(size, n)
    IN  /\ l' = l + ret
        /\ buf' = Append(buf, piece)
        /\ sizes' = Append(sizes, [off |-> l, size |-> size])
        /\ hiwrite' = Max(hiwrite, WriteEnd(l, size, n, isSym))

Banner == [k |-> "banner", t |-> "****", arg |-> 0, at |-> 0]
Dump == [k |-> "dump", t |-> "dump_regs", arg |-> 0, at |-> 0]
Line(b) == [k |-> "line", t |-> b[1].t, arg |-> b[1].arg, at |-> b[1].at]
Piece(t, arg, at) == [t |-> t, arg |-> arg, at |-> at]

---------------------------------------------------------------------------
(* The trampoline and exception_entry. *)

\* static struct container_verification_code *cvc = NULL
NoCvc ==
    [set |-> FALSE, start_addr |-> 0, end_addr |-> 0, service_list |-> <<>>]
NoFirst == [seen |-> FALSE, start_addr |-> 0, end_addr |-> 0]
NoCall == [op |-> "none", id |-> "none", a |-> 0, b |-> 0]

Init ==
    /\ pc = "idle"
    /\ stack \in StackFrames
    /\ entry = stack
    /\ cpu \in [vm_local_map_inuse : BOOLEAN, vm_setup : BOOLEAN]
    /\ cpu0 = cpu
    /\ hv = FALSE
    /\ nip = 0
    /\ msr = {}
    /\ fatal = FALSE
    /\ l = 0
    /\ buf = <<>>
    /\ log = <<>>
    /\ calls = <<>>
    /\ flagRead = FALSE
    /\ bt = 0
    /\ sizes = <<>>
    /\ hiwrite = 0
    /\ ml = 0
    /\ refaults = 0
    /\ cvc = NoCvc
    /\ first = NoFirst
    /\ last = NoCall

\* variant: reset and machine check classified with the hypervisor vectors
IsHv_WithResetMce(type) == type \in HvTypes \cup {T_SRESET, T_MCE}

\* the classification switch
IsHv(type) == type \in HvTypes

\* the trampoline calls exception_entry(stack); bool fatal = false
Enter ==
    /\ pc = "idle"
    /\ pc' = "classify"
    /\ fatal' = FALSE
    /\ UNCHANGED <<stack, entry, cpu, cpu0, hv, nip, msr, l, buf, log, calls,
                   flagRead, bt, sizes, hiwrite, ml, refaults, cvcvars>>

\* switch (stack->type) { ... hv = true / false }
Classify ==
    /\ pc = "classify"
    /\ hv' = IsHv(stack.type)
    /\ pc' = "select"
    /\ UNCHANGED <<stack, entry, cpu, cpu0, nip, msr, fatal, l, buf, log,
                   calls, flagRead, bt, sizes, hiwrite, ml, refaults, cvcvars>>

\* if (hv) { nip = hsrr0; msr = hsrr1 } else { nip = srr0; msr = srr1 }
SelectPair ==
    /\ pc = "select"
    /\ nip' = IF hv THEN stack.hsrr0 ELSE stack.srr0
    /\ msr' = IF hv THEN stack.hsrr1 ELSE stack.srr1
    /\ pc' = "base"
    /\ UNCHANGED <<stack, entry, cpu, cpu0, hv, fatal, l, buf, log, calls,
                   flagRead, bt, sizes, hiwrite, ml, refaults, cvcvars>>

\* variant: the recoverable-interrupt test left out
BaseRule_NoRi ==
    /\ pc = "base"
    /\ l' = 0
    /\ pc' = "switch"
    /\ UNCHANGED <<stack, entry, cpu, cpu0, hv, nip, msr, fatal, buf, log,
                   calls, flagRead, bt, sizes, hiwrite, ml, refaults, cvcvars>>

\* if (!(msr & MSR_RI)) fatal = true;  l = 0;
BaseRule ==
    /\ pc = "base"
    /\ fatal' = IF MSR_RI \notin msr THEN TRUE ELSE fatal
    /\ l' = 0
    /\ pc' = "switch"
    /\ UNCHANGED <<stack, entry, cpu, cpu0, hv, nip, msr, buf, log, calls,
                   flagRead, bt, sizes, hiwrite, ml, refaults, cvcvars>>

\* variant: the fatal wording used for every reset
CaseSreset_FatalText ==
    /\ pc = "switch"
    /\ stack.type = T_SRESET
    /\ log' = Append(log, Banner)
    /\ Format(Piece("Fatal System Reset at", 0, nip), LenFatalSreset, FALSE)
    /\ pc' = "symbol"
    /\ UNCHANGED <<stack, entry, cpu, cpu0, hv, nip, msr, fatal, calls,
                   flagRead, bt, ml, refaults, cvcvars>>

\* case 0x100
CaseSreset ==
    /\ pc = "switch"
    /\ stack.type = T_SRESET
    /\ log' = Append(log, Banner)
    /\ IF fatal
          THEN Format(Piece("Fatal System Reset at", 0, nip),
                      LenFatalSreset, FALSE)
          ELSE Format(Piece("System Reset at", 0, nip), LenSreset, FALSE)
    /\ pc' = "symbol"
    /\ UNCHANGED <<stack, entry, cpu, cpu0, hv, nip, msr, fatal, calls,
                   flagRead, bt, ml, refaults, cvcvars>>

\* variant: the non-linear-mapping flag not consulted
CaseMce_NoFlag ==
    /\ pc = "switch"
    /\ stack.type = T_MCE
    /\ pc' = "mce"
    /\ UNCHANGED <<stack, entry, cpu, cpu0, hv, nip, msr, fatal, l, buf, log,
                   calls, flagRead, bt, sizes, hiwrite, ml, refaults, cvcvars>>

\* variant: the translation bits cleared before the verdict is known
CaseMce_EarlyWrite ==
    /\ pc = "switch"
    /\ stack.type = T_MCE
    /\ flagRead' = TRUE
    /\ fatal' = IF cpu.vm_local_map_inuse THEN TRUE ELSE fatal
    /\ stack' = [stack EXCEPT !.srr1 = @ \ {MSR_IR, MSR_DR}]
    /\ pc' = "mce"
    /\ UNCHANGED <<entry, cpu, cpu0, hv, nip, msr, l, buf, log, calls, bt,
                   sizes, hiwrite, ml, refaults, cvcvars>>

\* case 0x200: if (this_cpu()->vm_local_map_inuse) fatal = true;
CaseMce ==
    /\ pc = "switch"
    /\ stack.type = T_MCE
    /\ flagRead' = TRUE
    /\ fatal' = IF cpu.vm_local_map_inuse THEN TRUE ELSE fatal
    /\ pc' = "mce"
    /\ UNCHANGED <<stack, entry, cpu, cpu0, hv, nip, msr, l, buf, log, calls,
                   bt, sizes, hiwrite, ml, refaults, cvcvars>>

\* if (!fatal && (msr & (MSR_IR|MSR_DR)))
MceRetryable == ~fatal /\ msr \cap {MSR_IR, MSR_DR} # {}

\* print_recoverable_mce_vm(stack, nip, msr), with its own buf and l
print_recoverable_mce_vm ==
    /\ pc = "mce"
    /\ MceRetryable
    /\ \E n \in SymLens :
         LET s1 == Remaining(0)
             l1 == 0 + snprintf(s1, LenRecoverableMce)
             s2 == Remaining(l1)
             l2 == l1 + snprintf_symbol(s2, n)
             s3 == Remaining(l2)
         IN  /\ sizes' = sizes \o <<[off |-> 0, size |-> s1],
                                    [off |-> l1, size |-> s2],
                                    [off |-> l2, size |-> s3]>>
             /\ hiwrite' = Max(Max(hiwrite,
                                   WriteEnd(0, s1, LenRecoverableMce, FALSE)),
                               Max(WriteEnd(l1, s2, n, TRUE),
                                   WriteEnd(l2, s3, LenMsr, FALSE)))
             /\ ml' = l2 + snprintf(s3, LenMsr)
    /\ log' = log \o <<[k |-> "line", t |-> "Recoverable MCE with VM on at",
                        arg |-> 0, at |-> nip],
                       Dump,
                       [k |-> "note", t |-> "Continuing with VM off",
                        arg |-> 0, at |-> 0]>>
    /\ pc' = "mce_retry"
    /\ UNCHANGED <<stack, entry, cpu, cpu0, hv, nip, msr, fatal, l, buf,
                   calls, flagRead, bt, refaults, cvcvars>>

\* variant: the translation bits left set in the snapshot
MceRetry_KeepBits ==
    /\ pc = "mce_retry"
    /\ cpu' = [cpu EXCEPT !.vm_setup = FALSE]
    /\ pc' = "out"
    /\ UNCHANGED <<stack, entry, cpu0, hv, nip, msr, fatal, l, buf, log,
                   calls, flagRead, bt, sizes, hiwrite, ml, refaults, cvcvars>>

\* variant: the rebuild request left out
MceRetry_NoRebuild ==
    /\ pc = "mce_retry"
    /\ stack' = [stack EXCEPT !.srr1 = @ \ {MSR_IR, MSR_DR}]
    /\ pc' = "out"
    /\ UNCHANGED <<entry, cpu, cpu0, hv, nip, msr, fatal, l, buf, log, calls,
                   flagRead, bt, sizes, hiwrite, ml, refaults, cvcvars>>

\* this_cpu()->vm_setup = false; stack->srr1 &= ~(MSR_IR|MSR_DR); goto out;
MceRetry ==
    /\ pc = "mce_retry"
    /\ cpu' = [cpu EXCEPT !.vm_setup = FALSE]
    /\ stack' = [stack EXCEPT !.srr1 = @ \ {MSR_IR, MSR_DR}]
    /\ pc' = "out"
    /\ UNCHANGED <<entry, cpu0, hv, nip, msr, fatal, l, buf, log, calls,
                   flagRead, bt, sizes, hiwrite, ml, refaults, cvcvars>>

\* fatal = true; banner; "Fatal MCE at"
MceFatal ==
    /\ pc = "mce"
    /\ ~MceRetryable
    /\ fatal' = TRUE
    /\ log' = Append(log, Banner)
    /\ Format(Piece("Fatal MCE at", 0, nip), LenFatalMce, FALSE)
    /\ pc' = "symbol"
    /\ UNCHANGED <<stack, entry, cpu, cpu0, hv, nip, msr, calls, flagRead, bt,
                   ml, refaults, cvcvars>>

\* what a resolver was handed
Call(fn, a, b, c) == [fn |-> fn, nip |-> a, dar |-> b, store |-> c]
Answered(call, handled) ==
    [fn |-> call.fn, nip |-> call.nip, dar |-> call.dar, store |-> call.store,
     handled |-> handled]

\* variant: the resolver's answer ignored
Delegate_IgnoreAnswer(call, handled, piece, n) ==
    /\ calls' = Append(calls, Answered(call, handled))
    /\ fatal' = TRUE
    /\ Format(piece, n, FALSE)
    /\ pc' = "symbol"
    /\ UNCHANGED <<stack, entry, cpu, cpu0, hv, nip, msr, log, flagRead, bt,
                   ml, refaults, cvcvars>>

\* variant: no resolver consulted once the base rule has set fatal
Delegate_SkipWhenFatal(call, handled, piece, n) ==
    /\ calls' = IF fatal THEN calls ELSE Append(calls, Answered(call, handled))
    /\ IF handled /\ ~fatal
          THEN /\ pc' = "out"
               /\ UNCHANGED <<fatal, l, buf, sizes, hiwrite>>
          ELSE /\ fatal' = TRUE
               /\ Format(piece, n, FALSE)
               /\ pc' = "symbol"
    /\ UNCHANGED <<stack, entry, cpu, cpu0, hv, nip, msr, log, flagRead, bt,
                   ml, refaults, cvcvars>>

\* a delegated fault: the resolver answers handled (goto out) or not
\* (fatal = true and the fault's own summary prefix)
Delegate(call, handled, piece, n) ==
    /\ calls' = Append(calls, Answered(call, handled))
    /\ IF handled
          THEN /\ pc' = "out"
               /\ UNCHANGED <<fatal, l, buf, sizes, hiwrite>>
          ELSE /\ fatal' = TRUE
               /\ Format(piece, n, FALSE)
               /\ pc' = "symbol"
    /\ UNCHANGED <<stack, entry, cpu, cpu0, hv, nip, msr, log, flagRead, bt,
                   ml, refaults, cvcvars>>

IsStore == DSISR_ISSTORE \in stack.dsisr

\* variant: the direction named in the summary line inverted
CaseDsi_Inverted ==
    /\ pc = "switch"
    /\ stack.type = T_DSI
    /\ \E handled \in BOOLEAN :
         Delegate(Call("vm_dsi", nip, stack.dar, IsStore), handled,
                  Piece(IF IsStore THEN "Fatal load address"
                                   ELSE "Fatal store address", stack.dar, nip),
                  LenFatalDsi(~IsStore))

\* case 0x300: vm_dsi(nip, stack->dar, !!(stack->dsisr & DSISR_ISSTORE))
CaseDsi ==
    /\ pc = "switch"
    /\ stack.type = T_DSI
    /\ \E handled \in BOOLEAN :
         Delegate(Call("vm_dsi", nip, stack.dar, IsStore), handled,
                  Piece(IF IsStore THEN "Fatal store address"
                                   ELSE "Fatal load address", stack.dar, nip),
                  LenFatalDsi(IsStore))

\* case 0x380: vm_dslb(nip, stack->dar)
CaseDslb ==
    /\ pc = "switch"
    /\ stack.type = T_DSLB
    /\ \E handled \in BOOLEAN :
         Delegate(Call("vm_dslb", nip, stack.dar, FALSE), handled,
                  Piece("Fatal load/store address", stack.dar, nip),
                  LenFatalDslb)

\* case 0x400: vm_isi(nip)
CaseIsi ==
    /\ pc = "switch"
    /\ stack.type = T_ISI
    /\ \E handled \in BOOLEAN :
         Delegate(Call("vm_isi", nip, 0, FALSE), handled,
                  Piece("Fatal ifetch at", 0, nip), LenFatalIfetch)

\* case 0x480: vm_islb(nip)
CaseIslb ==
    /\ pc = "switch"
    /\ stack.type = T_ISLB
    /\ \E handled \in BOOLEAN :
         Delegate(Call("vm_islb", nip, 0, FALSE), handled,
                  Piece("Fatal ifetch at", 0, nip), LenFatalIfetch)

\* variant: fatal not forced for an identifier without a case
CaseDefault_NotFatal ==
    /\ pc = "switch"
    /\ stack.type \notin {T_SRESET, T_MCE} \cup Delegated
    /\ log' = Append(log, Banner)
    /\ Format(Piece("Fatal Exception", stack.type, nip),
              LenFatalException(stack.type), FALSE)
    /\ pc' = "symbol"
    /\ UNCHANGED <<stack, entry, cpu, cpu0, hv, nip, msr, fatal, calls,
                   flagRead, bt, ml, refaults, cvcvars>>

\* default: fatal = true; banner; "Fatal Exception 0x%llx at"
CaseDefault ==
    /\ pc = "switch"
    /\ stack.type \notin {T_SRESET, T_MCE} \cup Delegated
    /\ fatal' = TRUE
    /\ log' = Append(log, Banner)
    /\ Format(Piece("Fatal Exception", stack.type, nip),
              LenFatalException(stack.type), FALSE)
    /\ pc' = "symbol"
    /\ UNCHANGED <<stack, entry, cpu, cpu0, hv, nip, msr, calls, flagRead, bt,
                   ml, refaults, cvcvars>>

\* l += snprintf_symbol(buf + l, EXCEPTION_MAX_STR - l, nip);
Symbol ==
    /\ pc = "symbol"
    /\ \E n \in SymLens : Format(Piece("symbol", n, nip), n, TRUE)
    /\ pc' = "msr"
    /\ UNCHANGED <<stack, entry, cpu, cpu0, hv, nip, msr, fatal, log, calls,
                   flagRead, bt, ml, refaults, cvcvars>>

\* l += snprintf(..., "  MSR "REG, msr); prerror("%s\n", buf);
\* dump_regs(stack);
Report ==
    /\ pc = "msr"
    /\ Format(Piece("MSR", 0, 0), LenMsr, FALSE)
    /\ log' = log \o <<Line(buf), Dump>>
    /\ pc' = "backtrace"
    /\ UNCHANGED <<stack, entry, cpu, cpu0, hv, nip, msr, fatal, calls,
                   flagRead, bt, ml, refaults, cvcvars>>

\* variant: backtrace() called whatever the verdict
Backtrace_Always ==
    /\ pc = "backtrace"
    /\ bt' = bt + 1
    /\ pc' = "out"
    /\ UNCHANGED <<stack, entry, cpu, cpu0, hv, nip, msr, fatal, l, buf, log,
                   calls, flagRead, sizes, hiwrite, ml, refaults, cvcvars>>

\* if (!fatal) backtrace();
Backtrace ==
    /\ pc = "backtrace"
    /\ bt' = IF ~fatal THEN bt + 1 ELSE bt
    /\ pc' = "out"
    /\ UNCHANGED <<stack, entry, cpu, cpu0, hv, nip, msr, fatal, l, buf, log,
                   calls, flagRead, sizes, hiwrite, ml, refaults, cvcvars>>

\* out: if (fatal) abort();
Out ==
    /\ pc = "out"
    /\ pc' = IF fatal THEN "aborted" ELSE "return"
    /\ UNCHANGED <<stack, entry, cpu, cpu0, hv, nip, msr, fatal, l, buf, log,
                   calls, flagRead, bt, sizes, hiwrite, ml, refaults, cvcvars>>

\* variant: the supervisor pair rewritten on every resume
Return_AlwaysRewrite ==
    /\ pc = "return"
    /\ stack' = [stack EXCEPT !.srr0 = nip, !.srr1 = msr]
    /\ pc' = "resumed"
    /\ UNCHANGED <<entry, cpu, cpu0, hv, nip, msr, fatal, l, buf, log, calls,
                   flagRead, bt, sizes, hiwrite, ml, refaults, cvcvars>>

\* variant: abort() returns, and the resume code runs after it
Return_AfterAbort ==
    /\ pc \in {"return", "aborted"}
    /\ stack' = IF hv THEN [stack EXCEPT !.srr0 = nip, !.srr1 = msr]
                      ELSE stack
    /\ pc' = "resumed"
    /\ UNCHANGED <<entry, cpu, cpu0, hv, nip, msr, fatal, l, buf, log, calls,
                   flagRead, bt, sizes, hiwrite, ml, refaults, cvcvars>>

\* if (hv) { stack->srr0 = nip; stack->srr1 = msr; }  and back to the
\* trampoline
Return ==
    /\ pc = "return"
    /\ stack' = IF hv THEN [stack EXCEPT !.srr0 = nip, !.srr1 = msr]
                      ELSE stack
    /\ pc' = "resumed"
    /\ UNCHANGED <<entry, cpu, cpu0, hv, nip, msr, fatal, l, buf, log, calls,
                   flagRead, bt, sizes, hiwrite, ml, refaults, cvcvars>>

Next ==
    \/ Enter
    \/ Classify
    \/ SelectPair
    \/ BaseRule
    \/ CaseSreset
    \/ CaseMce
    \/ print_recoverable_mce_vm
    \/ MceRetry
    \/ MceFatal
    \/ CaseDsi
    \/ CaseDslb
    \/ CaseIsi
    \/ CaseIslb
    \/ CaseDefault
    \/ Symbol
    \/ Report
    \/ Backtrace
    \/ Out
    \/ Return

Spec == Init /\ [][Next]_vars

\* the handler is straight-line code on one core: each block that can run
\* does run
FairSpec == Spec /\ WF_vars(Next)

---------------------------------------------------------------------------
(* A persistent machine check: after a degrade and retry the trampoline    *)
(* has resumed with the snapshot's srr0/srr1, and the same machine check   *)
(* is taken again, at that address and with that mode word.                *)

Refault ==
    /\ pc = "resumed"
    /\ stack.type = T_MCE
    /\ ~cpu.vm_local_map_inuse
    /\ refaults < MaxRefaults
    /\ refaults' = refaults + 1
    /\ entry' = stack
    /\ cpu0' = cpu
    /\ pc' = "classify"
    /\ fatal' = FALSE
    /\ hv' = FALSE
    /\ nip' = 0
    /\ msr' = {}
    /\ l' = 0
    /\ buf' = <<>>
    /\ log' = <<>>
    /\ calls' = <<>>
    /\ flagRead' = FALSE
    /\ bt' = 0
    /\ sizes' = <<>>
    /\ hiwrite' = 0
    /\ ml' = 0
    /\ UNCHANGED <<stack, cpu, cvcvars>>

RefaultNext == Next \/ Refault

RefaultSpec == Init /\ [][RefaultNext]_vars

---------------------------------------------------------------------------
(* libstb/cvc.c: the registry of the container verification code. *)

AddrMod == 2 ^ AddrBits

\* start_addr + offset in uint64_t arithmetic
AddU64(a, b) == (a + b) % AddrMod

Starts == {1, AddrMod - 2}
Ends == {0, 3, AddrMod - 1}
Offsets == 0..MaxOffset
Versions == {1, 2}

cvc_service_map ==
    <<[id |-> "CVC_SHA512_SERVICE", name |-> "sha512"],
      [id |-> "CVC_VERIFY_SERVICE", name |-> "verify"]>>

\* the ids a caller may pass: the two of the map and one that is not in it
ServiceIds == {"CVC_SHA512_SERVICE", "CVC_VERIFY_SERVICE", "CVC_OTHER"}

\* cvc_find_service: the position of the first entry with this id, 0 for
\* NULL
cvc_find_service(id) ==
    IF ~cvc.set
       THEN 0
       ELSE LET hits == {i \in 1..Len(cvc.service_list) :
                           cvc.service_list[i].id = id}
            IN  IF hits = {} THEN 0
                ELSE CHOOSE i \in hits : \A j \in hits : i <= j

\* cvc_service_map_name: the name of the id, "" for NULL
cvc_service_map_name(id) ==
    LET hits == {i \in 1..Len(cvc_service_map) : cvc_service_map[i].id = id}
    IN  IF hits = {} THEN ""
        ELSE cvc_service_map[CHOOSE i \in hits : \A j \in hits : i <= j].name

RegisterCall(start, end) ==
    [op |-> "cvc_register", id |-> "none", a |-> start, b |-> end]
ServiceCall(id, offset, version) ==
    [op |-> "cvc_service_register", id |-> id, a |-> offset, b |-> version]

\* the exception handler is not running
Parked == pc = "idle"

cvc_register ==
    /\ Parked
    /\ \E start \in Starts, end \in Ends :
         /\ last' = RegisterCall(start, end)
         /\ first' = IF first.seen THEN first
                     ELSE [seen |-> TRUE, start_addr |-> start,
                           end_addr |-> end]
         /\ cvc' = IF cvc.set THEN cvc
                   ELSE [set |-> TRUE, start_addr |-> start,
                         end_addr |-> end, service_list |-> <<>>]
    /\ UNCHANGED <<excvars, refaults>>

\* what cvc_service_register leaves in cvc
Registered(id, offset, version) ==
    IF ~cvc.set THEN cvc
    ELSE IF cvc_find_service(id) # 0 THEN cvc
    ELSE IF AddU64(cvc.start_addr, offset) > cvc.end_addr THEN cvc
    ELSE IF cvc_service_map_name(id) = "" THEN cvc
    ELSE [cvc EXCEPT !.service_list =
              Append(@, [id |-> id, version |-> version,
                         addr |-> AddU64(cvc.start_addr, offset)])]

cvc_service_register ==
    /\ Parked
    /\ \E id \in ServiceIds, offset \in Offsets, version \in Versions :
         /\ last' = ServiceCall(id, offset, version)
         /\ cvc' = Registered(id, offset, version)
    /\ UNCHANGED <<excvars, refaults, first>>

CvcNext == cvc_register \/ cvc_service_register

\* one CPU outside any trap, the registry empty
CvcInit ==
    /\ Init
    /\ stack = [type |-> T_SRESET, srr0 |-> 4096, srr1 |-> MsrBits,
                hsrr0 |-> 4096, hsrr1 |-> MsrBits, dar |-> 12288,
                dsisr |-> {}]
    /\ cpu = [vm_local_map_inuse |-> FALSE, vm_setup |-> TRUE]

CvcSpec == CvcInit /\ [][CvcNext]_vars

---------------------------------------------------------------------------
(* Vocabulary of the properties. *)

Aborted == pc = "aborted"
Resumed == pc = "resumed"
Done == Aborted \/ Resumed

\* the pair the handler reads the faulting address and mode word from
EffNip(f) == IF f.type \in HvTypes THEN f.hsrr0 ELSE f.srr0
EffMsr(f) == IF f.type \in HvTypes THEN f.hsrr1 ELSE f.srr1

TranslationOn(m) == MSR_IR \in m \/ MSR_DR \in m

\* the answer of the resolver that was consulted, if one was
Handled == calls # <<>> /\ calls[Len(calls)].handled

\* the summary lines and register dumps emitted so far
Lines == {i \in 1..Len(log) : log[i].k = "line"}
Dumps == {i \in 1..Len(log) : log[i].k = "dump"}
RecoverableLines ==
    {i \in Lines : log[i].t = "Recoverable MCE with VM on at"}

\* the classification as the specification words it: reset and machine
\* check counted with the hypervisor-delivered vectors
ClaimedHvTypes == {T_SRESET, T_MCE} \cup HvTypes

---------------------------------------------------------------------------
(* C1: with MSR_RI clear in the effective mode word the handler never      *)
(* resumes, whatever the trap identifier, the other snapshot fields, the   *)
(* CPU-local flags and the resolver's answer: it ends in abort().          *)
C1_RiClearIsFatal ==
    MSR_RI \notin EffMsr(entry) =>
        /\ pc \notin {"mce_retry", "return", "resumed"}
        /\ pc \notin {"idle", "classify", "select", "base"} => fatal
        /\ bt = 0

\* a delegated fault whose resolver said "handled", taken with RI clear,
\* has ended in abort()
C1_Witness ==
    /\ Aborted
    /\ MSR_RI \notin EffMsr(entry)
    /\ entry.type \in Delegated
    /\ Handled

---------------------------------------------------------------------------
(* C2 as stated: a delegated fault whose resolver answers "handled" never  *)
(* ends in abort() and emits nothing, for every mode word.                 *)
C2_HandledNeverFatal ==
    (entry.type \in Delegated /\ Handled) => (~Aborted /\ log = <<>>)

(* C2 amended: a delegated fault whose resolver answers "handled" emits no *)
(* summary line and no register dump for every mode word, and it resumes   *)
(* without abort() when the effective mode word has MSR_RI set; with       *)
(* MSR_RI clear it ends in abort().                                        *)
C2_HandledSilent ==
    (entry.type \in Delegated /\ Handled) =>
        /\ log = <<>>
        /\ bt = 0
        /\ pc \in {"out", "return", "resumed", "aborted"}
        /\ fatal = (MSR_RI \notin EffMsr(entry))
        /\ Aborted => MSR_RI \notin EffMsr(entry)
        /\ pc \in {"return", "resumed"} => MSR_RI \in EffMsr(entry)

C2_Witness ==
    /\ Resumed
    /\ entry.type = T_DSI
    /\ Handled
    /\ MSR_RI \in entry.srr1
    /\ log = <<>>

---------------------------------------------------------------------------
\* the end state of the degrade-and-retry path
DegradedRetry ==
    /\ Resumed
    /\ Cardinality(RecoverableLines) = 1
    /\ Cardinality(Lines) = 1
    /\ stack.srr0 = EffNip(entry)
    /\ stack.srr1 = EffMsr(entry) \ {MSR_IR, MSR_DR}

(* C3 as stated: a machine check with translation on in the effective mode *)
(* word and vm_local_map_inuse clear always ends as DegradedRetry.         *)
C3_MceVmAlwaysRetries ==
    ( /\ Done
      /\ entry.type = T_MCE
      /\ TranslationOn(EffMsr(entry))
      /\ ~cpu0.vm_local_map_inuse ) => DegradedRetry

(* C3 amended: a machine check with MSR_RI set and translation on in the   *)
(* effective mode word and vm_local_map_inuse clear never reaches abort()  *)
(* and ends as DegradedRetry: one recoverable summary line, the resume     *)
(* address unchanged, MSR_IR and MSR_DR clear in the srr1 it resumes with. *)
C3_MceVmRetriesWhenRi ==
    ( /\ entry.type = T_MCE
      /\ MSR_RI \in EffMsr(entry)
      /\ TranslationOn(EffMsr(entry))
      /\ ~cpu0.vm_local_map_inuse ) =>
        /\ ~Aborted
        /\ ~fatal
        /\ Done => DegradedRetry

C3_Witness ==
    /\ DegradedRetry
    /\ entry.type = T_MCE
    /\ MSR_RI \in entry.srr1
    /\ MSR_IR \in entry.srr1
    /\ MSR_IR \notin stack.srr1

---------------------------------------------------------------------------
(* C4: a machine check taken with vm_local_map_inuse set never resumes and *)
(* never writes the snapshot or vm_setup, for every mode word; when the    *)
(* handler is done it has called abort().                                  *)
C4_MceLocalMapIsFatal ==
    (entry.type = T_MCE /\ cpu0.vm_local_map_inuse) =>
        /\ stack = entry
        /\ cpu = cpu0
        /\ pc \notin {"mce_retry", "return", "resumed"}
        /\ pc \in {"mce", "symbol", "msr", "backtrace", "out", "aborted"}
              => fatal

\* such a machine check, recoverable and with translation on, has aborted
C4_Witness ==
    /\ Aborted
    /\ entry.type = T_MCE
    /\ cpu0.vm_local_map_inuse
    /\ cpu0.vm_setup
    /\ MSR_RI \in entry.srr1
    /\ MSR_DR \in entry.srr1

---------------------------------------------------------------------------
\* the handler has chosen the pair it works from
Selected == pc \notin {"idle", "classify", "select"}

(* C5 as stated: reset, machine check and the hypervisor vectors take the  *)
(* faulting address and mode word from hsrr0/hsrr1, every other identifier *)
(* from srr0/srr1.                                                         *)
C5_ResetMceUseHvPair ==
    Selected =>
        IF entry.type \in ClaimedHvTypes
           THEN nip = entry.hsrr0 /\ msr = entry.hsrr1
           ELSE nip = entry.srr0 /\ msr = entry.srr1

(* C5 amended: exactly the nine identifiers 0x500, 0x980, 0xe00, 0xe20,    *)
(* 0xe40, 0xe60, 0xe80, 0xea0 and 0xf80 are hypervisor-context and read    *)
(* hsrr0/hsrr1; every other identifier, reset (0x100) and machine check    *)
(* (0x200) included, reads srr0/srr1.  The mapping is total.               *)
C5_OnlyHvVectorsUseHvPair ==
    /\ pc \notin {"idle", "classify"} => (hv = (entry.type \in HvTypes))
    /\ Selected =>
         IF entry.type \in HvTypes
            THEN nip = entry.hsrr0 /\ msr = entry.hsrr1
            ELSE nip = entry.srr0 /\ msr = entry.srr1

C5_Witness ==
    /\ Selected
    /\ entry.type = T_MCE
    /\ entry.srr0 # entry.hsrr0
    /\ entry.srr1 # entry.hsrr1
    /\ nip = entry.srr0
    /\ msr = entry.srr1
    /\ ~hv

---------------------------------------------------------------------------
---------------------------------------------------------------------------
(* C7 as stated: on resume from a guest/supervisor-context trap srr0,      *)
(* srr1, hsrr0 and hsrr1 equal their values on entry.                      *)
C7_GuestResumeUnmodified ==
    (Resumed /\ ~hv) =>
        /\ stack.srr0 = entry.srr0
        /\ stack.srr1 = entry.srr1
        /\ stack.hsrr0 = entry.hsrr0
        /\ stack.hsrr1 = entry.hsrr1

(* C7 amended: on resume from a guest/supervisor-context trap srr0, hsrr0  *)
(* and hsrr1 equal their values on entry, and so does srr1 except after a  *)
(* machine check's degrade and retry, which has cleared MSR_IR and MSR_DR  *)
(* in srr1 and nothing else.                                               *)
C7_GuestResumeOnlyClearsTranslation ==
    (Resumed /\ ~hv) =>
        /\ stack.srr0 = entry.srr0
        /\ stack.hsrr0 = entry.hsrr0
        /\ stack.hsrr1 = entry.hsrr1
        /\ IF entry.type = T_MCE
              THEN stack.srr1 = entry.srr1 \ {MSR_IR, MSR_DR}
              ELSE stack.srr1 = entry.srr1
        /\ [stack EXCEPT !.srr1 = entry.srr1] = entry

\* a machine check resumed with srr1 changed
C7_Witness ==
    /\ Resumed
    /\ ~hv
    /\ entry.type = T_MCE
    /\ stack.srr1 # entry.srr1
    /\ stack.srr1 = entry.srr1 \ {MSR_IR, MSR_DR}

---------------------------------------------------------------------------
(* C8: the snapshot is written only by the degrade-and-retry block or by   *)
(* the rewrite of a hypervisor-context resume; when either runs the        *)
(* verdict is non-fatal and no later block changes it; and at abort() the  *)
(* snapshot is the one handed over on entry.                               *)
C8_WritesAfterVerdict ==
    /\ [][ /\ stack' # stack =>
                \/ /\ pc = "mce_retry"
                   /\ ~fatal
                   /\ Cardinality(RecoverableLines) = 1
                \/ pc = "return" /\ hv /\ ~fatal
           /\ pc \in {"mce_retry", "out", "return", "resumed", "aborted"}
                => fatal' = fatal
           /\ pc' = "aborted" => (fatal /\ stack' = entry /\ stack = entry)
         ]_vars
    /\ [](Aborted => stack = entry)

\* the degrade-and-retry write has happened and the handler has resumed
C8_Witness ==
    /\ Resumed
    /\ stack # entry
    /\ ~fatal

---------------------------------------------------------------------------
(* C9: every invocation reaches abort() or the return to the trampoline,   *)
(* and once it has reached one of the two it stays there (it never reaches *)
(* the other).                                                             *)
C9_ExactlyOneOutcome ==
    /\ <>Done
    /\ [][Done => pc' = pc]_vars

\* both outcomes are reachable: this is one of them, C1_Witness the other
C9_Witness ==
    /\ Resumed
    /\ bt = 1
    /\ entry.type = T_SRESET

---------------------------------------------------------------------------
(* C10: every formatter call is handed the space that is left,             *)
(* EXCEPTION_MAX_STR - l with no unsigned wrap-around, the running offset  *)
(* l stays below the capacity, and no byte is stored outside buf, however  *)
(* long the symbol is; a report that does not fit is cut short.            *)
C10_BufferBounded ==
    /\ l < EXCEPTION_MAX_STR
    /\ ml < EXCEPTION_MAX_STR
    /\ hiwrite <= EXCEPTION_MAX_STR
    /\ \A i \in 1..Len(sizes) :
         /\ sizes[i].off <= EXCEPTION_MAX_STR
         /\ sizes[i].size = EXCEPTION_MAX_STR - sizes[i].off
         /\ sizes[i].size >= 1

\* a symbol longer than the buffer was formatted and the line was cut at
\* the capacity
C10_Witness ==
    /\ Aborted
    /\ \E i \in 1..Len(buf) :
         buf[i].t = "symbol" /\ buf[i].arg > EXCEPTION_MAX_STR
    /\ l = EXCEPTION_MAX_STR - 1
    /\ hiwrite = EXCEPTION_MAX_STR
    /\ Len(sizes) = 3

---------------------------------------------------------------------------
\* the summary line emitted, if one was, and what follows it
HasLine(t) == \E i \in Lines : log[i].t = t
LineThenDump ==
    \E i \in Lines : i < Len(log) /\ log[i + 1].k = "dump"

(* C11 as stated: a backtrace is captured on every resume from reset and   *)
(* from machine check (DegradedRetry), and on no other outcome.            *)
C11_BacktraceOnResetAndRetry ==
    Done => bt = IF Resumed /\ entry.type \in {T_SRESET, T_MCE}
                    THEN 1 ELSE 0

(* C11 amended: a backtrace is captured exactly on InformationalResume     *)
(* (reset with MSR_RI set), after the summary line and the register dump   *)
(* and before the handler returns; on DegradedRetry, on                    *)
(* DelegatedRecoverable and on Fatal none is captured.                     *)
C11_BacktraceOnlyOnReset ==
    /\ bt \in {0, 1}
    /\ bt = 1 => /\ entry.type = T_SRESET
                 /\ ~fatal
                 /\ HasLine("System Reset at")
                 /\ LineThenDump
                 /\ pc \in {"out", "return", "resumed"}
    /\ (pc \in {"out", "return", "resumed"} /\ entry.type = T_SRESET /\ ~fatal)
          => bt = 1
    /\ Done => bt = IF Resumed /\ entry.type = T_SRESET THEN 1 ELSE 0

\* a reset resumed with its backtrace captured after the line and the dump
C11_Witness ==
    /\ Resumed
    /\ entry.type = T_SRESET
    /\ HasLine("System Reset at")
    /\ LineThenDump
    /\ bt = 1

---------------------------------------------------------------------------
\* the degrade-and-retry block has run
Retried == RecoverableLines # {} /\ pc \in {"out", "return", "resumed"}

\* the switch on stack->type has been entered
Switched == pc \notin {"idle", "classify", "select", "base", "switch"}

(* C12: vm_local_map_inuse is never written and is read only for a machine *)
(* check; the only write to CPU-local state is vm_setup = false, made by   *)
(* the degrade-and-retry block and by no other, before the handler returns.*)
C12_CpuLocalFrame ==
    /\ cpu.vm_local_map_inuse = cpu0.vm_local_map_inuse
    /\ flagRead => entry.type = T_MCE
    /\ IF Retried
          THEN cpu = [cpu0 EXCEPT !.vm_setup = FALSE]
          ELSE cpu = cpu0
    /\ (Resumed /\ entry.type = T_MCE) => (Retried /\ ~cpu.vm_setup)

\* the rebuild request is visible when the handler has returned
C12_Witness ==
    /\ Resumed
    /\ entry.type = T_MCE
    /\ cpu0.vm_setup
    /\ ~cpu.vm_setup
    /\ flagRead

---------------------------------------------------------------------------
KnownTypes == {T_SRESET, T_MCE} \cup Delegated

(* C13: a trap identifier outside 0x100, 0x200, 0x300, 0x380, 0x400, 0x480 *)
(* gets the banner, the "Fatal Exception" summary line naming that         *)
(* identifier and the register dump, and then abort(), with MSR_RI set or  *)
(* clear; it never resumes.                                                *)
C13_UnknownAlwaysFatal ==
    entry.type \notin KnownTypes =>
        /\ pc \notin {"mce", "mce_retry", "return", "resumed"}
        /\ Switched => fatal
        /\ calls = <<>>
        /\ bt = 0
        /\ pc \in {"backtrace", "out", "aborted"} =>
              log = <<Banner,
                      [k |-> "line", t |-> "Fatal Exception",
                       arg |-> entry.type, at |-> EffNip(entry)],
                      Dump>>

\* an identifier with no case, taken with MSR_RI set, has ended in abort()
C13_Witness ==
    /\ Aborted
    /\ entry.type \in OtherTypes
    /\ MSR_RI \in entry.srr1
    /\ \E i \in Lines : log[i].t = "Fatal Exception" /\ log[i].arg = entry.type

---------------------------------------------------------------------------
(* C14: a reset whose effective mode word has MSR_RI set never reaches     *)
(* abort(): it emits the banner, the "System Reset" line (not the "Fatal   *)
(* System Reset" one) and the register dump, leaves the snapshot alone and *)
(* resumes, whatever the CPU-local flags and the other fields.             *)
C14_ResetResumes ==
    (entry.type = T_SRESET /\ MSR_RI \in EffMsr(entry)) =>
        /\ ~fatal
        /\ ~Aborted
        /\ stack = entry
        /\ cpu = cpu0
        /\ ~HasLine("Fatal System Reset at")
        /\ pc \in {"backtrace", "out", "return", "resumed"} =>
              log = <<Banner,
                      [k |-> "line", t |-> "System Reset at",
                       arg |-> 0, at |-> entry.srr0],
                      Dump>>

\* such a reset has resumed with the non-linear mapping in use
C14_Witness ==
    /\ Resumed
    /\ entry.type = T_SRESET
    /\ MSR_RI \in entry.srr1
    /\ cpu0.vm_local_map_inuse
    /\ HasLine("System Reset at")
    /\ Dumps # {}

---------------------------------------------------------------------------
NotHandled == calls # <<>> /\ ~calls[Len(calls)].handled

\* the resolver of a delegated fault and what it is handed
Resolver(type) ==
    CASE type = T_DSI -> "vm_dsi"
      [] type = T_DSLB -> "vm_dslb"
      [] type = T_ISI -> "vm_isi"
      [] OTHER -> "vm_islb"

\* the summary line of a delegated fault nobody handled
FaultLine(f) ==
    CASE f.type = T_DSI ->
           [k |-> "line",
            t |-> IF DSISR_ISSTORE \in f.dsisr THEN "Fatal store address"
                                              ELSE "Fatal load address",
            arg |-> f.dar, at |-> f.srr0]
      [] f.type = T_DSLB ->
           [k |-> "line", t |-> "Fatal load/store address",
            arg |-> f.dar, at |-> f.srr0]
      [] OTHER ->
           [k |-> "line", t |-> "Fatal ifetch at", arg |-> 0, at |-> f.srr0]

(* C15: a delegated fault whose resolver answers "not handled" gets that   *)
(* fault's own summary line and the register dump and then abort().  For   *)
(* the data storage fault the resolver is handed DAR and the store bit of  *)
(* DSISR, and the line says "store" when that bit is set, "load" when it   *)
(* is clear, with the address taken from DAR.                              *)
C15_UnhandledFaultReported ==
    (entry.type \in Delegated /\ NotHandled) =>
        /\ fatal
        /\ bt = 0
        /\ pc \in {"symbol", "msr", "backtrace", "out", "aborted"}
        /\ pc \in {"backtrace", "out", "aborted"} =>
              log = <<FaultLine(entry), Dump>>
        /\ entry.type = T_DSI =>
              calls = <<[fn |-> "vm_dsi", nip |-> entry.srr0,
                         dar |-> entry.dar,
                         store |-> DSISR_ISSTORE \in entry.dsisr,
                         handled |-> FALSE]>>

\* an unhandled store fault, recoverable by its mode word, has aborted
C15_Witness ==
    /\ Aborted
    /\ entry.type = T_DSI
    /\ DSISR_ISSTORE \in entry.dsisr
    /\ MSR_RI \in entry.srr1
    /\ NotHandled
    /\ \E i \in Lines :
         log[i].t = "Fatal store address" /\ log[i].arg = entry.dar

---------------------------------------------------------------------------
(* C16 as stated: with MSR_RI clear in the effective mode word no resolver *)
(* is invoked and vm_local_map_inuse is not read; with MSR_RI set the      *)
(* resolver of a delegated fault is invoked exactly once.                  *)
C16_NoDelegationWhenRiClear ==
    /\ MSR_RI \notin EffMsr(entry) => (calls = <<>> /\ ~flagRead)
    /\ (MSR_RI \in EffMsr(entry) /\ entry.type \in Delegated /\ Switched)
          => Len(calls) = 1

(* C16 amended: the vector-specific block runs whatever the base rule      *)
(* decided: the resolver of a delegated fault is invoked exactly once and  *)
(* vm_local_map_inuse is read for every machine check, with MSR_RI set or  *)
(* clear; no resolver is invoked for any other identifier.                 *)
C16_DelegationUnconditional ==
    /\ ~Switched => (calls = <<>> /\ ~flagRead)
    /\ Switched =>
         /\ flagRead = (entry.type = T_MCE)
         /\ IF entry.type \in Delegated
               THEN /\ Len(calls) = 1
                    /\ calls[1].fn = Resolver(entry.type)
                    /\ calls[1].nip = EffNip(entry)
               ELSE calls = <<>>

\* a resolver was consulted although MSR_RI was clear
C16_Witness ==
    /\ Aborted
    /\ MSR_RI \notin EffMsr(entry)
    /\ entry.type = T_ISI
    /\ Len(calls) = 1
    /\ NotHandled

---------------------------------------------------------------------------
(* C17: every execution that ends in abort() has emitted a summary line    *)
(* followed by the register dump.                                          *)
C17_NoSilentAbort == Aborted => LineThenDump

---------------------------------------------------------------------------
(* C19: a trap the classifier marks hypervisor-context always ends in      *)
(* abort(): no execution resumes with hv true, and the rewrite of          *)
(* srr0/srr1 from the hypervisor pair never takes effect.                  *)
C19_HvNeverResumes ==
    /\ entry.type \in HvTypes =>
         /\ pc \notin {"mce", "mce_retry", "return", "resumed"}
         /\ Switched => fatal
         /\ stack = entry
    /\ pc \notin {"idle", "classify"} => (hv = (entry.type \in HvTypes))
    /\ pc \in {"return", "resumed"} => ~hv

\* a hypervisor vector, recoverable by its mode word, has ended in abort()
\* with srr0 still different from hsrr0
C19_Witness ==
    /\ Aborted
    /\ hv
    /\ MSR_RI \in entry.hsrr1
    /\ entry.srr0 # entry.hsrr0
    /\ stack.srr0 = entry.srr0

---------------------------------------------------------------------------
(* C18 as stated: a machine check re-taken after a degrade and retry, at   *)
(* the same address, with the mode word that resume installed and with     *)
(* vm_local_map_inuse clear, is answered with DegradedRetry again, never   *)
(* with Fatal.  (The verdict does not depend on the one choice left open,  *)
(* the symbol's length, so "can" and "always does" coincide.)              *)
C18_RefaultRetriesAgain == (refaults >= 1 /\ Done) => Resumed

(* C18 amended: there is no retry counter, but a machine check re-taken    *)
(* after a degrade and retry with the mode word that resume installed has  *)
(* MSR_IR and MSR_DR clear, fails the test of the retry block and is       *)
(* Fatal ("Fatal MCE"): DegradedRetry is answered at most once in such a   *)
(* sequence.                                                               *)
C18_RefaultIsFatal ==
    /\ refaults <= 1
    /\ refaults >= 1 =>
         /\ entry.type = T_MCE
         /\ ~TranslationOn(entry.srr1)
         /\ pc \notin {"mce_retry", "return", "resumed"}
         /\ RecoverableLines = {}
         /\ pc \in {"symbol", "msr", "backtrace", "out", "aborted"} => fatal
         /\ Aborted => HasLine("Fatal MCE at")

\* the re-taken machine check, recoverable by its mode word, has aborted
C18_Witness ==
    /\ Aborted
    /\ refaults = 1
    /\ MSR_RI \in entry.srr1
    /\ ~cpu.vm_setup
    /\ HasLine("Fatal MCE at")

---------------------------------------------------------------------------
\* the entries of the service list
Services == {cvc.service_list[i] : i \in 1..Len(cvc.service_list)}

\* a cvc_service_register call that returns before the entry is made
Rejected(call) ==
    \/ ~cvc.set
    \/ \E e \in Services : e.id = call.id
    \/ AddU64(cvc.start_addr, call.a) > cvc.end_addr
    \/ call.id \notin {"CVC_SHA512_SERVICE", "CVC_VERIFY_SERVICE"}

\* start_addr + offset as a number, without the width of uint64_t
Sum(call) == cvc.start_addr + call.a

\* a cvc_service_register call that the claim says changes nothing
OutOfRange(call) ==
    \/ ~cvc.set
    \/ \E e \in Services : e.id = call.id
    \/ Sum(call) > cvc.end_addr
    \/ call.id \notin {"CVC_SHA512_SERVICE", "CVC_VERIFY_SERVICE"}

RegistryModular ==
    /\ [] /\ cvc.set = first.seen
          /\ cvc.set => /\ cvc.start_addr = first.start_addr
                        /\ cvc.end_addr = first.end_addr
          /\ ~cvc.set => cvc = NoCvc
          /\ \A i, j \in 1..Len(cvc.service_list) :
                cvc.service_list[i].id = cvc.service_list[j].id => i = j
          /\ \A e \in Services :
                /\ e.id \in {"CVC_SHA512_SERVICE", "CVC_VERIFY_SERVICE"}
                /\ \E o \in Offsets : e.addr = AddU64(cvc.start_addr, o)
                /\ e.addr <= cvc.end_addr
                /\ e.version \in Versions
    /\ [][ /\ (last'.op = "cvc_service_register" /\ Rejected(last'))
                => cvc' = cvc
           /\ (last'.op = "cvc_register" /\ cvc.set) => cvc' = cvc
           /\ (last'.op = "cvc_service_register" /\ ~Rejected(last'))
                => /\ Len(cvc'.service_list) = Len(cvc.service_list) + 1
                   /\ cvc'.service_list[Len(cvc'.service_list)] =
                        [id |-> last'.id, version |-> last'.b,
                         addr |-> AddU64(cvc.start_addr, last'.a)]
         ]_cvcvars

\* an offset past end_addr was accepted: the entry lies below start_addr
Wrapped == \E e \in Services : e.addr < cvc.start_addr

====
